---- MODULE Spec2Model ----
(***************************************************************************)
(* Model of SipService (web/src/services/sipService.ts): the session store *)
(* activeSessions, the SIP.js sessions held in it, the stateChange         *)
(* listeners the service installs on them, and the service's operations.   *)
(*                                                                         *)
(* A session object and the key it is stored under are the same number k:  *)
(* generateSessionId() hands out a fresh key per session object.           *)
(* SIP.js itself (Inviter, Invitation, UserAgent) is the environment; its  *)
(* state machine is modelled as the service drives and observes it:        *)
(* stateTransition() sets the state and then runs the listeners            *)
(* synchronously, in the order they were added.  An Invitation is handed   *)
(* to onInvite in state Initial and has no cancel() method; accept() and   *)
(* reject() take it to Establishing/Established and Terminated.  An        *)
(* Inviter goes Initial -> Establishing when the INVITE is out; cancel()   *)
(* takes it to Terminating and the final response to Terminated; bye()     *)
(* takes an Established session to Terminated.  The listener's assignment  *)
(* to sessionDescriptionHandler.localMediaStream is taken as written: it   *)
(* sets the property cleanupSession later reads.  The Registerer changes   *)
(* state only on the answers to its own REGISTERs.  Each step also records *)
(* what the service call made in it threw and had SIP.js send.             *)
(***************************************************************************)
EXTENDS Integers, Sequences, FiniteSets, TLC

\* Bounds of the model.
MaxSessions == 1    \* session objects ever created
MaxAnswers == 1     \* getUserMedia calls answerCall makes per session id

Ids == 1..MaxSessions

SessionStates == {"Initial", "Establishing", "Established", "Terminating", "Terminated"}

VARIABLES
  initialized,     \* userAgent, registerer and config are set
  connected,       \* the transport is connected
  activeSessions,  \* keys of the Map activeSessions
  nextId,          \* next session object / key
  kind,            \* k -> "none" | "Inviter" | "Invitation"
  trace,           \* k -> every state the session object has had, oldest first
  handlers,        \* k -> the setupSessionHandlers listeners, each the index of the localStream it closes over
  sdhStream,       \* k -> index of the app stream in sessionDescriptionHandler.localMediaStream, 0 when it is the handler's own
  streams,         \* k -> per stream acquired by makeCall/answerCall for k, how often its tracks were stopped
  answerMedia,     \* k -> answerCall invocations awaiting getUserMedia
  pend,            \* k -> what hangupCall is awaiting: "none" | "micro" (a settled promise) | "ack" (bye() waiting for the ACK)
  notifs,          \* k -> states carried by the onCallStateChange deliveries with id k, oldest first
  signals,         \* k -> the cancel()/bye() calls hangupCall made on the session and the rejections rejectCall sent, and what userAgent.stop() sent it, oldest first
  acquire,         \* k -> getUserMedia calls made for session id k
  answered,        \* k -> answerCall was invoked with id k
  started,         \* userAgent.state is Started: connect() has called userAgent.start()
  registerer,      \* registerer.state ("Terminated" once disposed of), or "Waiting" for a registerer that is not Registered and awaits the response to its REGISTER
  muted,           \* k -> the audio tracks of the session's local stream are disabled
  sent,            \* the request the service call of the last step had SIP.js send: "none" | "cancel" | "bye" | "reject" | "info" | "unregister"
  disc,            \* disconnect(): where it stands, the ids stored when it was
                   \* called, and the ids it has still to go through
  localHold,       \* k -> sessionDescriptionHandler.localHold of the session is truthy
  clock,           \* Date.now()
  issued,          \* the ids generateSessionId() has returned, oldest first
  raised,          \* the callbacks other than onCallStateChange invoked in the last step, in order
  thrown           \* the error the service call of the last step threw (its promise rejected with), "none" when it threw nothing

vars == <<initialized, connected, activeSessions, nextId, kind, trace,
          handlers, sdhStream, streams, answerMedia, pend, notifs, signals,
          acquire, answered, started, registerer, muted, sent, disc,
          localHold, clock, issued, raised, thrown>>

Last(s) == s[Len(s)]

Range(s) == {s[i] : i \in DOMAIN s}

\* session.state
State(k) == IF trace[k] = <<>> THEN "none" ELSE Last(trace[k])

\* What a listener run can change: the store, and the session's own fields.
World(k) ==
  [store |-> activeSessions, trace |-> trace[k], sdh |-> sdhStream[k],
   stops |-> streams[k], notifs |-> notifs[k]]

\* getSessionId(session): the key the object is stored under, if any.
GetSessionId(k, w) == IF k \in w.store THEN k ELSE 0

\* Faulty variant of updateCallSession: onCallStateChange is not called.
UpdateCallSessionSilent(k, w) == w

\* updateCallSession(sessionId, session): onCallStateChange with session.state.
UpdateCallSession(k, w) == [w EXCEPT !.notifs = Append(@, Last(w.trace))]

\* Faulty variant of cleanupSession: the store entry is not deleted.
CleanupSessionKeepsEntry(k, w) ==
  IF w.sdh > 0 THEN [w EXCEPT !.stops[w.sdh] = @ + 1] ELSE w

\* cleanupSession(session): delete the entry found by identity, then stop the
\* tracks of sessionDescriptionHandler.localMediaStream.
CleanupSession(k, w) ==
  LET w1 == IF GetSessionId(k, w) # 0 THEN [w EXCEPT !.store = @ \ {k}] ELSE w
  IN  IF w1.sdh > 0 THEN [w1 EXCEPT !.stops[w1.sdh] = @ + 1] ELSE w1

\* The listener setupSessionHandlers adds; ls is its localStream (0: undefined).
SetupListener(k, ls, newState, w) ==
  LET w1 == IF newState = "Established"
              THEN (IF ls > 0 THEN [w EXCEPT !.sdh = ls] ELSE w)
            ELSE IF newState = "Terminated" THEN CleanupSession(k, w)
            ELSE w
  IN  IF GetSessionId(k, w1) # 0 THEN UpdateCallSession(k, w1) ELSE w1

\* Faulty variant of handleIncomingCall's listener: it never deletes the entry.
IncomingListenerKeepsEntry(k, newState, w) == w

\* The listener handleIncomingCall adds.
IncomingListener(k, newState, w) ==
  IF newState = "Terminated" THEN [w EXCEPT !.store = @ \ {k}] ELSE w

RECURSIVE RunHandlers(_, _, _, _)
RunHandlers(k, hs, newState, w) ==
  IF hs = <<>> THEN w
  ELSE RunHandlers(k, Tail(hs), newState, SetupListener(k, Head(hs), newState, w))

\* Session.stateTransition(newState) of session k whose listeners are
\* handleIncomingCall's (an Invitation has it first) and then hs.
StateTransition(k, hs, newState, w) ==
  LET w0 == [w EXCEPT !.trace = Append(@, newState)]
      w1 == IF kind[k] = "Invitation" THEN IncomingListener(k, newState, w0) ELSE w0
  IN  RunHandlers(k, hs, newState, w1)

\* Write a world back.
Commit(k, w) ==
  /\ activeSessions' = w.store
  /\ trace' = [trace EXCEPT ![k] = w.trace]
  /\ sdhStream' = [sdhStream EXCEPT ![k] = w.sdh]
  /\ streams' = [streams EXCEPT ![k] = w.stops]
  /\ notifs' = [notifs EXCEPT ![k] = w.notifs]

\* No disconnect() is under way.
Idle == disc.phase = "idle"

\* A continuation of a settled promise is queued: it runs before any
\* transport, timer or media callback.
Micro == \E k \in Ids : pend[k] = "micro"

Init ==
  /\ initialized = FALSE
  /\ connected = FALSE
  /\ activeSessions = {}
  /\ nextId = 1
  /\ kind = [k \in Ids |-> "none"]
  /\ trace = [k \in Ids |-> <<>>]
  /\ handlers = [k \in Ids |-> <<>>]
  /\ sdhStream = [k \in Ids |-> 0]
  /\ streams = [k \in Ids |-> <<>>]
  /\ answerMedia = [k \in Ids |-> 0]
  /\ pend = [k \in Ids |-> "none"]
  /\ notifs = [k \in Ids |-> <<>>]
  /\ signals = [k \in Ids |-> <<>>]
  /\ acquire = [k \in Ids |-> 0]
  /\ answered = [k \in Ids |-> FALSE]
  /\ started = FALSE
  /\ registerer = "Initial"
  /\ muted = [k \in Ids |-> FALSE]
  /\ sent = "none"
  /\ disc = [phase |-> "idle", stored |-> {}, todo |-> {}]
  /\ localHold = [k \in Ids |-> FALSE]
  /\ clock = 0
  /\ issued = <<>>
  /\ raised = <<>>
  /\ thrown = "none"

\* initialize(config)
Initialize ==
  /\ Idle
  /\ ~initialized
  /\ initialized' = TRUE
  /\ UNCHANGED <<disc, localHold, clock, issued, connected, started,
                 registerer, muted, activeSessions, nextId, kind, trace,
                 handlers, sdhStream, streams, answerMedia, pend, notifs,
                 signals, acquire, answered>>
  /\ sent' = "none"
  /\ thrown' = "none"
  /\ raised' = <<>>

\* A callback invocation: its name and the Invitation it is passed (0: none).
\* No callback of the service other than onCallStateChange is passed a
\* session id.
Callback(name, inv) == [name |-> name, invitation |-> inv, sessionId |-> 0]

\* isRegistered()
IsRegistered == registerer = "Registered"

\* isConnected()
IsConnected == started

\* The error connect() and makeCall() throw before initialize().
NotInitializedError == "SIP service not initialized"

\* register() and unregister() of a Registerer that userAgent.stop() has
\* disposed of.
RegistererTerminatedError == "Registerer terminated"

\* unregister() while a REGISTER of this Registerer awaits its response.
RegisterInProgressError == "REGISTER request already in progress"

\* The rejection of userAgent.start() when the transport cannot connect.
TransportError == "transport connect failed"

\* Faulty variant of connect(): the guard for an initialized service sits
\* inside the try block, so its error reaches onRegistrationFailed.
ConnectReportsNotInitialized ==
  /\ Idle
  /\ ~Micro
  /\ ~initialized
  /\ thrown' = NotInitializedError
  /\ raised' = <<Callback("onRegistrationFailed", 0)>>
  /\ sent' = "none"
  /\ UNCHANGED <<disc, localHold, clock, issued, initialized, connected,
                 started, registerer, muted, activeSessions, nextId, kind,
                 trace, handlers, sdhStream, streams, answerMedia, pend,
                 notifs, signals, acquire, answered>>

\* connect(): throws before initialize(); otherwise userAgent.start() brings
\* the transport up (delegate.onConnect) and registerer.register() sends a
\* REGISTER; connect() returns without waiting for the response. After a
\* disconnect() the Registerer is disposed of and register() throws.
Connect ==
  /\ Idle
  /\ ~Micro
  /\ IF ~initialized
       THEN /\ thrown' = NotInitializedError
            /\ raised' = <<>>
            /\ UNCHANGED <<connected, started, registerer>>
       ELSE /\ ~connected
            /\ connected' = TRUE
            /\ started' = TRUE
            /\ IF registerer = "Terminated"
                 THEN /\ UNCHANGED registerer
                      /\ thrown' = RegistererTerminatedError
                      /\ raised' = <<Callback("onConnected", 0),
                                     Callback("onRegistrationFailed", 0)>>
                 ELSE /\ registerer' = IF IsRegistered THEN "Registered"
                                       ELSE "Waiting"
                      /\ thrown' = "none"
                      /\ raised' = <<Callback("onConnected", 0)>>
  /\ sent' = "none"
  /\ UNCHANGED <<disc, localHold, clock, issued, initialized, muted,
                 activeSessions, nextId, kind, trace, handlers, sdhStream,
                 streams, answerMedia, pend, notifs, signals, acquire,
                 answered>>

\* connect() when the transport cannot be brought up: userAgent.start()
\* rejects, the catch block calls onRegistrationFailed and rethrows;
\* register() is not reached.
ConnectFails ==
  /\ Idle
  /\ ~Micro
  /\ initialized
  /\ ~connected
  /\ started' = TRUE
  /\ thrown' = TransportError
  /\ raised' = <<Callback("onRegistrationFailed", 0)>>
  /\ sent' = "none"
  /\ UNCHANGED <<disc, localHold, clock, issued, initialized, connected,
                 registerer, muted, activeSessions, nextId, kind, trace,
                 handlers, sdhStream, streams, answerMedia, pend, notifs,
                 signals, acquire, answered>>

\* delegate.onDisconnect: the transport reports a disconnection; the handler
\* logs and calls onDisconnected, nothing else.
OnDisconnect ==
  /\ Idle
  /\ connected
  /\ ~Micro
  /\ connected' = FALSE
  /\ UNCHANGED <<disc, localHold, clock, issued, initialized, started,
                 registerer, muted, activeSessions, nextId, kind, trace,
                 handlers, sdhStream, streams, answerMedia, pend, notifs,
                 signals, acquire, answered>>
  /\ sent' = "none"
  /\ thrown' = "none"
  /\ raised' = <<Callback("onDisconnected", 0)>>

\* delegate.onConnect without a connect() call: the transport of a started
\* user agent comes back; the handler logs and calls onConnected, nothing
\* else.
OnConnect ==
  /\ Idle
  /\ started
  /\ ~connected
  /\ ~Micro
  /\ connected' = TRUE
  /\ UNCHANGED <<disc, localHold, clock, issued, initialized, started,
                 registerer, muted, activeSessions, nextId, kind, trace,
                 handlers, sdhStream, streams, answerMedia, pend, notifs,
                 signals, acquire, answered>>
  /\ sent' = "none"
  /\ thrown' = "none"
  /\ raised' = <<Callback("onConnected", 0)>>

\* Faulty variant of the registerer's listener: a failed registration empties
\* the store.
RegisterResponseDropsSessions(ok) ==
  /\ Idle
  /\ registerer \in {"Waiting", "Registered"}
  /\ ok => connected
  /\ ~Micro
  /\ registerer' = IF ok THEN "Registered" ELSE "Unregistered"
  /\ activeSessions' = IF ok THEN activeSessions ELSE {}
  /\ UNCHANGED <<disc, localHold, clock, issued, initialized, connected,
                 started, muted, nextId, kind, trace, handlers, sdhStream,
                 streams, answerMedia, pend, notifs, signals, acquire,
                 answered>>
  /\ sent' = "none"
  /\ thrown' = "none"
  /\ raised' = IF registerer' = registerer THEN <<>>
               ELSE IF ok THEN <<Callback("onRegistered", 0)>>
               ELSE <<Callback("onUnregistered", 0)>>

\* The response to a REGISTER arrives, or the wait for it ends (ok: it is a
\* 200): the registerer's listener calls onRegistered or onUnregistered. A
\* Registered registerer sends such REGISTERs itself to refresh.
RegisterResponse(ok) ==
  /\ Idle
  /\ registerer \in {"Waiting", "Registered"}
  /\ ok => connected
  /\ ~Micro
  /\ registerer' = IF ok THEN "Registered" ELSE "Unregistered"
  /\ UNCHANGED <<disc, localHold, clock, issued, initialized, connected,
                 started, muted, activeSessions, nextId, kind, trace,
                 handlers, sdhStream, streams, answerMedia, pend, notifs,
                 signals, acquire, answered>>
  /\ sent' = "none"
  /\ thrown' = "none"
  /\ raised' = IF registerer' = registerer THEN <<>>
               ELSE IF ok THEN <<Callback("onRegistered", 0)>>
               ELSE <<Callback("onUnregistered", 0)>>

\* The error a rejected getUserMedia promise carries.
MediaError == "getUserMedia rejected"

\* The error a rejected invite() or accept() promise carries.
RequestError == "request failed"

\* The error accept() and reject() of an Invitation refuse a wrong state with.
InvalidStateError == "Invalid session state"

\* The error answerCall and rejectCall throw for an id that is not in the
\* store and for a stored session that is no Invitation.
InvalidSessionError == "Invalid session ID or session not found"

\* Faulty variant of makeCall: the Inviter is created and stored before
\* getUserMedia is awaited, and stays when getUserMedia rejects.
MakeCallStoresFirst(ok) ==
  /\ Idle
  /\ ~Micro
  /\ nextId <= MaxSessions
  /\ initialized
  /\ LET k == nextId IN
     /\ nextId' = nextId + 1
     /\ kind' = [kind EXCEPT ![k] = "Inviter"]
     /\ trace' = [trace EXCEPT ![k] = <<"Initial">>]
     /\ acquire' = [acquire EXCEPT ![k] = 1]
     /\ streams' = [streams EXCEPT ![k] = IF ok THEN <<0>> ELSE <<>>]
     /\ handlers' = [handlers EXCEPT ![k] = <<IF ok THEN 1 ELSE 0>>]
     /\ activeSessions' = activeSessions \cup {k}
  /\ sent' = "none"
  /\ thrown' = IF ok THEN "none" ELSE MediaError
  /\ UNCHANGED <<disc, localHold, clock, issued, initialized, started,
                 registerer, muted, connected, sdhStream, answerMedia, pend,
                 notifs, signals, answered>>
  /\ raised' = <<>>

\* makeCall(targetUri, options). Its only check is that initialize() has
\* run. Then getUserMedia is awaited (ok: it resolved), the Inviter is
\* created, given its handlers and stored, and invite() is started.
MakeCall(ok) ==
  /\ Idle
  /\ ~Micro
  /\ nextId <= MaxSessions
  /\ IF ~initialized
       THEN /\ sent' = "none"
            /\ thrown' = NotInitializedError
            /\ UNCHANGED <<disc, localHold, clock, issued, initialized,
                           started, registerer, muted, connected,
                           activeSessions, nextId, kind, trace, handlers,
                           sdhStream, streams, answerMedia, pend, notifs,
                           signals, acquire, answered>>
       ELSE IF ok
       THEN LET k == nextId IN
            /\ nextId' = nextId + 1
            /\ kind' = [kind EXCEPT ![k] = "Inviter"]
            /\ trace' = [trace EXCEPT ![k] = <<"Initial">>]
            /\ acquire' = [acquire EXCEPT ![k] = 1]
            /\ streams' = [streams EXCEPT ![k] = <<0>>]
            /\ handlers' = [handlers EXCEPT ![k] = <<1>>]
            /\ activeSessions' = activeSessions \cup {k}
            /\ sent' = "none"
            /\ thrown' = "none"
            /\ UNCHANGED <<disc, localHold, clock, issued, initialized,
                           started, registerer, muted, connected, sdhStream,
                           answerMedia, pend, notifs, signals, answered>>
       ELSE /\ sent' = "none"
            /\ thrown' = MediaError
            /\ UNCHANGED <<disc, localHold, clock, issued, initialized,
                           started, registerer, muted, connected,
                           activeSessions, nextId, kind, trace, handlers,
                           sdhStream, streams, answerMedia, pend, notifs,
                           signals, acquire, answered>>
  /\ raised' = <<>>

\* invite(): the offer is made and the INVITE sent; makeCall returns the id.
InviteSent(k) ==
  /\ Idle
  /\ kind[k] = "Inviter"
  /\ State(k) = "Initial"
  /\ connected
  /\ ~Micro
  /\ Commit(k, StateTransition(k, handlers[k], "Establishing", World(k)))
  /\ UNCHANGED <<disc, localHold, clock, issued, initialized, started,
                 registerer, muted, connected, nextId, kind, handlers,
                 answerMedia, pend, signals, acquire, answered>>
  /\ sent' = "none"
  /\ thrown' = "none"
  /\ raised' = <<>>

\* invite() fails before the INVITE is out: the Inviter terminates and the
\* promise makeCall awaits rejects.
InviteFailed(k) ==
  /\ Idle
  /\ kind[k] = "Inviter"
  /\ State(k) = "Initial"
  /\ ~Micro
  /\ Commit(k, StateTransition(k, handlers[k], "Terminated", World(k)))
  /\ UNCHANGED <<disc, localHold, clock, issued, initialized, started,
                 registerer, muted, connected, nextId, kind, handlers,
                 answerMedia, pend, signals, acquire, answered>>
  /\ sent' = "none"
  /\ thrown' = RequestError
  /\ raised' = <<>>

\* The remote accepts: Established, then requestDelegate.onAccept.
RemoteAccept(k) ==
  /\ Idle
  /\ kind[k] = "Inviter"
  /\ State(k) = "Establishing"
  /\ connected
  /\ ~Micro
  /\ Commit(k, UpdateCallSession(k,
                 StateTransition(k, handlers[k], "Established", World(k))))
  /\ UNCHANGED <<disc, localHold, clock, issued, initialized, started,
                 registerer, muted, connected, nextId, kind, handlers,
                 answerMedia, pend, signals, acquire, answered>>
  /\ sent' = "none"
  /\ thrown' = "none"
  /\ raised' = <<>>

\* The remote accepts an Inviter that was cancelled: SIP.js acknowledges,
\* sends BYE and terminates the session.
RemoteAcceptCanceled(k) ==
  /\ Idle
  /\ kind[k] = "Inviter"
  /\ State(k) = "Terminating"
  /\ connected
  /\ ~Micro
  /\ Commit(k, StateTransition(k, handlers[k], "Terminated", World(k)))
  /\ UNCHANGED <<disc, localHold, clock, issued, initialized, started,
                 registerer, muted, connected, nextId, kind, handlers,
                 answerMedia, pend, signals, acquire, answered>>
  /\ sent' = "none"
  /\ thrown' = "none"
  /\ raised' = <<>>

\* The remote rejects (or answers a CANCEL with 487): Terminated, then
\* requestDelegate.onReject deletes the entry.
RemoteReject(k) ==
  /\ Idle
  /\ kind[k] = "Inviter"
  /\ State(k) \in {"Establishing", "Terminating"}
  /\ connected
  /\ ~Micro
  /\ LET w == StateTransition(k, handlers[k], "Terminated", World(k))
     IN  Commit(k, [w EXCEPT !.store = @ \ {k}])
  /\ UNCHANGED <<disc, localHold, clock, issued, initialized, started,
                 registerer, muted, connected, nextId, kind, handlers,
                 answerMedia, pend, signals, acquire, answered>>
  /\ sent' = "none"
  /\ thrown' = "none"
  /\ raised' = <<>>

\* The remote hangs up an established call.
RemoteBye(k) ==
  /\ Idle
  /\ kind[k] # "none"
  /\ State(k) = "Established"
  /\ connected
  /\ ~Micro
  /\ Commit(k, StateTransition(k, handlers[k], "Terminated", World(k)))
  /\ UNCHANGED <<disc, localHold, clock, issued, initialized, started,
                 registerer, muted, connected, nextId, kind, handlers,
                 answerMedia, pend, signals, acquire, answered>>
  /\ sent' = "none"
  /\ thrown' = "none"
  /\ raised' = <<>>

\* Faulty variant of handleIncomingCall: it acquires the media itself.
HandleIncomingCallAcquires ==
  /\ Idle
  /\ initialized
  /\ connected
  /\ ~Micro
  /\ nextId <= MaxSessions
  /\ LET k == nextId IN
     /\ nextId' = nextId + 1
     /\ kind' = [kind EXCEPT ![k] = "Invitation"]
     /\ trace' = [trace EXCEPT ![k] = <<"Initial">>]
     /\ activeSessions' = activeSessions \cup {k}
     /\ acquire' = [acquire EXCEPT ![k] = 1]
     /\ streams' = [streams EXCEPT ![k] = <<0>>]
  /\ UNCHANGED <<disc, localHold, clock, issued, initialized, started,
                 registerer, muted, connected, handlers, sdhStream,
                 answerMedia, pend, notifs, signals, answered>>
  /\ sent' = "none"
  /\ thrown' = "none"
  /\ raised' = <<Callback("onIncomingCall", nextId)>>

\* delegate.onInvite -> handleIncomingCall(invitation): the Invitation (state
\* Initial) is stored and given the deleting listener.
HandleIncomingCall ==
  /\ Idle
  /\ initialized
  /\ connected
  /\ ~Micro
  /\ nextId <= MaxSessions
  /\ LET k == nextId IN
     /\ nextId' = nextId + 1
     /\ kind' = [kind EXCEPT ![k] = "Invitation"]
     /\ trace' = [trace EXCEPT ![k] = <<"Initial">>]
     /\ activeSessions' = activeSessions \cup {k}
  /\ UNCHANGED <<disc, localHold, clock, issued, initialized, started,
                 registerer, muted, connected, handlers, sdhStream, streams,
                 answerMedia, pend, notifs, signals, acquire, answered>>
  /\ sent' = "none"
  /\ thrown' = "none"
  /\ raised' = <<Callback("onIncomingCall", nextId)>>

\* The remote cancels an Invitation. When accept() was in progress
\* (Establishing) the promise answerCall awaits settles: SIP.js may swallow
\* the error, and answerCall then goes on to updateCallSession.
RemoteCancel(k) ==
  /\ Idle
  /\ kind[k] = "Invitation"
  /\ State(k) \in {"Initial", "Establishing"}
  /\ connected
  /\ ~Micro
  /\ LET w == StateTransition(k, handlers[k], "Terminated", World(k)) IN
     \E resolves \in BOOLEAN :
       /\ resolves => State(k) = "Establishing"
       /\ Commit(k, IF resolves THEN UpdateCallSession(k, w) ELSE w)
       /\ sent' = "none"
       /\ thrown' = IF State(k) = "Establishing" /\ ~resolves
                      THEN RequestError ELSE "none"
  /\ UNCHANGED <<disc, localHold, clock, issued, initialized, started,
                 registerer, muted, connected, nextId, kind, handlers,
                 answerMedia, pend, signals, acquire, answered>>
  /\ raised' = <<>>

\* The Invitation's no-answer timer fires: SIP.js rejects with 408.
NoAnswerTimeout(k) ==
  /\ Idle
  /\ kind[k] = "Invitation"
  /\ State(k) = "Initial"
  /\ ~Micro
  /\ Commit(k, StateTransition(k, handlers[k], "Terminated", World(k)))
  /\ UNCHANGED <<disc, localHold, clock, issued, initialized, started,
                 registerer, muted, connected, nextId, kind, handlers,
                 answerMedia, pend, signals, acquire, answered>>
  /\ sent' = "none"
  /\ thrown' = "none"
  /\ raised' = <<>>

\* answerCall(sessionId) up to its await of getUserMedia. An unknown id or a
\* session that is no Invitation throws before anything is done.
AnswerCall(k) ==
  /\ Idle
  /\ k < nextId
  /\ answered' = [answered EXCEPT ![k] = TRUE]
  /\ IF k \in activeSessions /\ kind[k] = "Invitation"
       THEN /\ acquire[k] < MaxAnswers
            /\ acquire' = [acquire EXCEPT ![k] = @ + 1]
            /\ answerMedia' = [answerMedia EXCEPT ![k] = @ + 1]
            /\ sent' = "none"
            /\ thrown' = "none"
       ELSE /\ sent' = "none"
            /\ thrown' = InvalidSessionError
            /\ UNCHANGED <<acquire, answerMedia>>
  /\ UNCHANGED <<disc, localHold, clock, issued, initialized, started,
                 registerer, muted, connected, activeSessions, nextId, kind,
                 trace, handlers, sdhStream, streams, pend, notifs, signals>>
  /\ raised' = <<>>

\* Faulty variant of the rest of answerCall: accept() does not look at the
\* state of the Invitation and answers whatever it has become.
AnswerProceedAnyState(k, n) ==
  LET hs == Append(handlers[k], n)
      w  == IF n > 0 THEN [World(k) EXCEPT !.stops = Append(@, 0)] ELSE World(k)
  IN  /\ handlers' = [handlers EXCEPT ![k] = hs]
      /\ Commit(k, StateTransition(k, hs, "Establishing", w))
      /\ sent' = "none"
      /\ thrown' = "none"

\* answerCall once it has a stream (n the stream's index, 0 for none):
\* setupSessionHandlers, then invitation.accept(), which SIP.js refuses
\* unless the Invitation is still Initial.
AnswerProceed(k, n) ==
  LET hs == Append(handlers[k], n)
      w  == IF n > 0 THEN [World(k) EXCEPT !.stops = Append(@, 0)] ELSE World(k)
  IN  /\ handlers' = [handlers EXCEPT ![k] = hs]
      /\ IF State(k) = "Initial"
           THEN /\ Commit(k, StateTransition(k, hs, "Establishing", w))
                /\ sent' = "none"
                /\ thrown' = "none"
           ELSE /\ Commit(k, w)
                /\ sent' = "none"
                /\ thrown' = InvalidStateError

\* Faulty variant of answerCall: it goes on to accept() although getUserMedia
\* failed.
AnswerAfterMediaUnchecked(k, ok) ==
  /\ Idle
  /\ answerMedia[k] > 0
  /\ ~Micro
  /\ answerMedia' = [answerMedia EXCEPT ![k] = @ - 1]
  /\ AnswerProceed(k, IF ok THEN Len(streams[k]) + 1 ELSE 0)
  /\ UNCHANGED <<disc, localHold, clock, issued, initialized, started,
                 registerer, muted, connected, nextId, kind, pend, signals,
                 acquire, answered>>
  /\ raised' = <<>>

\* answerCall resumed when getUserMedia settles: a rejection is thrown on.
AnswerAfterMedia(k, ok) ==
  /\ Idle
  /\ answerMedia[k] > 0
  /\ ~Micro
  /\ answerMedia' = [answerMedia EXCEPT ![k] = @ - 1]
  /\ IF ok
       THEN AnswerProceed(k, Len(streams[k]) + 1)
       ELSE /\ sent' = "none"
            /\ thrown' = MediaError
            /\ UNCHANGED <<activeSessions, trace, handlers, sdhStream,
                           streams, notifs>>
  /\ UNCHANGED <<disc, localHold, clock, issued, initialized, started,
                 registerer, muted, connected, nextId, kind, pend, signals,
                 acquire, answered>>
  /\ raised' = <<>>

\* accept() succeeds: Established, then answerCall's own updateCallSession.
AcceptCompletes(k) ==
  /\ Idle
  /\ kind[k] = "Invitation"
  /\ State(k) = "Establishing"
  /\ ~Micro
  /\ Commit(k, UpdateCallSession(k,
                 StateTransition(k, handlers[k], "Established", World(k))))
  /\ UNCHANGED <<disc, localHold, clock, issued, initialized, started,
                 registerer, muted, connected, nextId, kind, handlers,
                 answerMedia, pend, signals, acquire, answered>>
  /\ sent' = "none"
  /\ thrown' = "none"
  /\ raised' = <<>>

\* accept() fails (no answer could be made): SIP.js rejects the INVITE,
\* terminates the session, and answerCall throws.
AcceptFails(k) ==
  /\ Idle
  /\ kind[k] = "Invitation"
  /\ State(k) = "Establishing"
  /\ ~Micro
  /\ Commit(k, StateTransition(k, handlers[k], "Terminated", World(k)))
  /\ UNCHANGED <<disc, localHold, clock, issued, initialized, started,
                 registerer, muted, connected, nextId, kind, handlers,
                 answerMedia, pend, signals, acquire, answered>>
  /\ sent' = "none"
  /\ thrown' = RequestError
  /\ raised' = <<>>

\* Faulty variant of reject(): no state is refused.
CanRejectAlways(st) == TRUE

\* The states in which invitation.reject() is not refused.
CanReject(st) == st \in {"Initial", "Establishing"}

\* rejectCall(sessionId): invitation.reject() takes effect while the
\* Invitation is Initial or Establishing and is refused afterwards; then the
\* entry is deleted.
RejectCall(k) ==
  /\ Idle
  /\ k < nextId
  /\ IF k \in activeSessions /\ kind[k] = "Invitation" /\ CanReject(State(k))
       THEN /\ signals' = [signals EXCEPT ![k] = Append(@, "reject")]
            /\ LET w == StateTransition(k, handlers[k], "Terminated", World(k))
               IN  Commit(k, [w EXCEPT !.store = @ \ {k}])
            /\ sent' = "reject"
            /\ thrown' = "none"
       ELSE /\ sent' = "none"
            /\ thrown' = IF k \in activeSessions /\ kind[k] = "Invitation"
                           THEN InvalidStateError
                           ELSE InvalidSessionError
            /\ UNCHANGED <<signals, activeSessions, trace, sdhStream,
                           streams, notifs>>
  /\ UNCHANGED <<disc, localHold, clock, issued, initialized, started,
                 registerer, muted, connected, nextId, kind, handlers,
                 answerMedia, pend, acquire, answered>>
  /\ raised' = <<>>

\* Faulty variant of hangupCall's switch: bye() is called while Terminating
\* too.
HangupSignalRepeats(st) ==
  IF st \in {"Initial", "Establishing"} THEN "cancel"
  ELSE IF st \in {"Established", "Terminating"} THEN "bye"
  ELSE "none"

\* Faulty variant of hangupCall's switch: no cancel branch.
HangupSignalNoCancel(st) ==
  IF st = "Established" THEN "bye" ELSE "none"

\* hangupCall's switch on session.state.
HangupSignal(st) ==
  IF st \in {"Initial", "Establishing"} THEN "cancel"
  ELSE IF st = "Established" THEN "bye"
  ELSE "none"

\* hangupCall(sessionId): the id is not in the store.
HangupNotFound(k) ==
  /\ k \notin activeSessions
  /\ sent' = "none"
  /\ thrown' = "Session not found"
  /\ UNCHANGED <<activeSessions, trace, sdhStream, streams, notifs, signals,
                 pend>>

\* hangupCall: await session.cancel(). An Invitation has no cancel(), the
\* call throws and the entry stays. Inviter.cancel() goes to Terminating,
\* and on to Terminated when no INVITE is out yet.
HangupCancel(k) ==
  /\ k \in activeSessions
  /\ HangupSignal(State(k)) = "cancel"
  /\ IF kind[k] = "Inviter"
       THEN /\ signals' = [signals EXCEPT ![k] = Append(@, "cancel")]
            /\ IF State(k) \in {"Initial", "Establishing"}
                 THEN LET w1 == StateTransition(k, handlers[k], "Terminating", World(k))
                          w2 == IF State(k) = "Initial"
                                  THEN StateTransition(k, handlers[k], "Terminated", w1)
                                  ELSE w1
                      IN  /\ Commit(k, w2)
                          /\ pend' = [pend EXCEPT ![k] = "micro"]
                          /\ sent' = "cancel"
                          /\ thrown' = "none"
                 ELSE /\ sent' = "none"
                      /\ thrown' = InvalidStateError
                      /\ UNCHANGED <<activeSessions, trace, sdhStream,
                                     streams, notifs, pend>>
       ELSE /\ sent' = "none"
            /\ thrown' = "session.cancel is not a function"
            /\ UNCHANGED <<activeSessions, trace, sdhStream, streams, notifs,
                           signals, pend>>

\* hangupCall: await session.bye(). With the dialog confirmed the BYE goes
\* out and the session is Terminated at once; an Invitation whose 200 is not
\* yet acknowledged goes to Terminating and waits for the ACK.
HangupBye(k) ==
  /\ k \in activeSessions
  /\ HangupSignal(State(k)) = "bye"
  /\ signals' = [signals EXCEPT ![k] = Append(@, "bye")]
  /\ sent' = "bye"
  /\ thrown' = "none"
  /\ IF State(k) = "Established"
       THEN \E ackWait \in BOOLEAN :
              /\ ackWait => kind[k] = "Invitation"
              /\ IF ackWait
                   THEN /\ Commit(k, StateTransition(k, handlers[k], "Terminating", World(k)))
                        /\ pend' = [pend EXCEPT ![k] = "ack"]
                   ELSE /\ Commit(k, StateTransition(k, handlers[k], "Terminated", World(k)))
                        /\ pend' = [pend EXCEPT ![k] = "micro"]
       ELSE UNCHANGED <<activeSessions, trace, sdhStream, streams, notifs,
                        pend>>

\* hangupCall: the default branch sends nothing and deletes the entry.
HangupDefault(k) ==
  /\ k \in activeSessions
  /\ HangupSignal(State(k)) = "none"
  /\ activeSessions' = activeSessions \ {k}
  /\ sent' = "none"
  /\ thrown' = "none"
  /\ UNCHANGED <<trace, sdhStream, streams, notifs, signals, pend>>

\* hangupCall(sessionId) up to its await.
HangupCall(k) ==
  /\ Idle
  /\ k < nextId
  /\ \/ HangupNotFound(k)
     \/ HangupCancel(k)
     \/ HangupBye(k)
     \/ HangupDefault(k)
  /\ UNCHANGED <<disc, localHold, clock, issued, initialized, started,
                 registerer, muted, connected, nextId, kind, handlers,
                 answerMedia, acquire, answered>>
  /\ raised' = <<>>

\* hangupCall after its await: activeSessions.delete(sessionId).
HangupResume(k) ==
  /\ disc.phase # "forEach"
  /\ pend[k] = "micro"
  /\ pend' = [pend EXCEPT ![k] = "none"]
  /\ activeSessions' = activeSessions \ {k}
  /\ UNCHANGED <<disc, localHold, clock, issued, initialized, started,
                 registerer, muted, connected, nextId, kind, trace, handlers,
                 sdhStream, streams, answerMedia, notifs, signals, acquire,
                 answered>>
  /\ sent' = "none"
  /\ thrown' = "none"
  /\ raised' = <<>>

\* The ACK arrives (or its wait times out) for a bye() that was waiting:
\* the BYE goes out, the session is Terminated, hangupCall resumes.
AckReceived(k) ==
  /\ Idle
  /\ pend[k] = "ack"
  /\ ~Micro
  /\ pend' = [pend EXCEPT ![k] = "none"]
  /\ LET w == StateTransition(k, handlers[k], "Terminated", World(k))
     IN  Commit(k, [w EXCEPT !.store = @ \ {k}])
  /\ UNCHANGED <<disc, localHold, clock, issued, initialized, started,
                 registerer, muted, connected, nextId, kind, handlers,
                 answerMedia, signals, acquire, answered>>
  /\ sent' = "none"
  /\ thrown' = "none"
  /\ raised' = <<>>

\* Faulty variant of the guard: a session that was Established once passes.
EstablishedSessionOnce(k) == "Established" \in Range(trace[k])

\* The smallest id of a set: the Map is gone through in insertion order.
First(S) == CHOOSE k \in S : \A j \in S : k <= j

\* disconnect() is called: activeSessions.forEach starts. Its run up to
\* the call of unregister() is synchronous, nothing else runs in between.
Disconnect ==
  /\ Idle
  /\ ~Micro
  /\ disc' = [phase |-> "forEach", stored |-> activeSessions,
              todo |-> activeSessions]
  /\ sent' = "none"
  /\ thrown' = "none"
  /\ raised' = <<>>
  /\ UNCHANGED <<initialized, connected, started, registerer, muted,
                 activeSessions, nextId, kind, trace, handlers, sdhStream,
                 streams, answerMedia, pend, notifs, signals, acquire,
                 answered, localHold, clock, issued>>

\* disconnect(): one round of the forEach, this.hangupCall(sessionId) up to
\* its await. The promise is dropped: an error of hangupCall is not seen by
\* disconnect().
DisconnectHangup ==
  /\ disc.phase = "forEach"
  /\ disc.todo # {}
  /\ LET k == First(disc.todo)
     IN  /\ disc' = [disc EXCEPT !.todo = @ \ {k}]
         /\ \/ HangupCancel(k)
            \/ HangupBye(k)
            \/ HangupDefault(k)
  /\ raised' = <<>>
  /\ UNCHANGED <<initialized, connected, started, registerer, muted, nextId,
                 kind, handlers, answerMedia, acquire, answered, localHold,
                 clock, issued>>

\* disconnect(): await this.registerer.unregister(), called right after the
\* forEach. Without initialize() there is no registerer and no userAgent
\* and disconnect() is done; unregister() rejects while a REGISTER is
\* awaiting its response and throws for a disposed Registerer, which ends
\* disconnect() with that error.
DisconnectUnregister ==
  /\ disc.phase = "forEach"
  /\ disc.todo = {}
  /\ raised' = <<>>
  /\ IF ~initialized
       THEN /\ disc' = [phase |-> "idle", stored |-> {}, todo |-> {}]
            /\ sent' = "none"
            /\ thrown' = "none"
       ELSE IF registerer \in {"Waiting", "Terminated"}
         THEN /\ disc' = [phase |-> "idle", stored |-> {}, todo |-> {}]
              /\ sent' = "none"
              /\ thrown' = IF registerer = "Waiting"
                             THEN RegisterInProgressError
                             ELSE RegistererTerminatedError
         ELSE /\ disc' = [disc EXCEPT !.phase = "stop"]
              /\ sent' = "unregister"
              /\ thrown' = "none"
  /\ UNCHANGED <<initialized, connected, started, registerer, muted,
                 activeSessions, nextId, kind, trace, handlers, sdhStream,
                 streams, answerMedia, pend, notifs, signals, acquire,
                 answered, localHold, clock, issued>>

\* The sessions userAgent.stop() disposes of: those not yet ended.
Disposable ==
  {k \in Ids : State(k) \in {"Initial", "Establishing", "Established"}}

\* disconnect(): await this.userAgent.stop(), called once unregister() has
\* resolved and the queued continuations have run. A user agent that is
\* not Started has nothing to stop and disconnect() has completed.
\* Otherwise the user agent is Stopped, the Registerer is disposed of (an
\* Unregistered state change first when it was Registered), then the
\* sessions are.
DisconnectStop ==
  /\ disc.phase = "stop"
  /\ ~Micro
  /\ IF started
       THEN /\ disc' = [disc EXCEPT !.phase = "dispose", !.todo = Disposable]
            /\ started' = FALSE
            /\ registerer' = "Terminated"
            /\ raised' = IF IsRegistered
                           THEN <<Callback("onUnregistered", 0)>>
                           ELSE <<>>
       ELSE /\ disc' = [phase |-> "idle", stored |-> {}, todo |-> {}]
            /\ raised' = <<>>
            /\ UNCHANGED <<started, registerer>>
  /\ sent' = "none"
  /\ thrown' = "none"
  /\ UNCHANGED <<initialized, connected, muted, activeSessions, nextId, kind,
                 trace, handlers, sdhStream, streams, answerMedia, pend,
                 notifs, signals, acquire, answered, localHold, clock,
                 issued>>

\* userAgent.stop(): Session.dispose() of one session. An Invitation not
\* yet answered is rejected, an Inviter not yet answered is cancelled, an
\* Established session is sent a BYE (after the ACK when that is awaited).
DisconnectDispose ==
  /\ disc.phase = "dispose"
  /\ disc.todo # {}
  /\ LET k == First(disc.todo)
     IN  /\ disc' = [disc EXCEPT !.todo = @ \ {k}]
         /\ IF State(k) = "Established"
              THEN /\ signals' = [signals EXCEPT ![k] = Append(@, "bye")]
                   /\ sent' = "bye"
                   /\ \E ackWait \in BOOLEAN :
                        /\ ackWait => kind[k] = "Invitation"
                        /\ IF ackWait
                             THEN /\ Commit(k, StateTransition(k, handlers[k],
                                                 "Terminating", World(k)))
                                  /\ pend' = [pend EXCEPT ![k] = "ack"]
                             ELSE /\ Commit(k, StateTransition(k, handlers[k],
                                                 "Terminated", World(k)))
                                  /\ UNCHANGED pend
            ELSE IF kind[k] = "Invitation"
              THEN /\ signals' = [signals EXCEPT ![k] = Append(@, "reject")]
                   /\ sent' = "reject"
                   /\ Commit(k, StateTransition(k, handlers[k], "Terminated",
                                                World(k)))
                   /\ UNCHANGED pend
              ELSE LET w1 == StateTransition(k, handlers[k], "Terminating",
                                             World(k))
                       w2 == IF State(k) = "Initial"
                               THEN StateTransition(k, handlers[k],
                                                    "Terminated", w1)
                               ELSE w1
                   IN  /\ signals' = [signals EXCEPT ![k] = Append(@, "cancel")]
                       /\ sent' = "cancel"
                       /\ Commit(k, w2)
                       /\ UNCHANGED pend
  /\ thrown' = "none"
  /\ raised' = <<>>
  /\ UNCHANGED <<initialized, connected, started, registerer, muted, nextId,
                 kind, handlers, answerMedia, acquire, answered, localHold,
                 clock, issued>>

\* userAgent.stop() ends with the transport disconnected (delegate
\* .onDisconnect when it was up); disconnect() has completed.
DisconnectDone ==
  /\ disc.phase = "dispose"
  /\ disc.todo = {}
  /\ disc' = [phase |-> "idle", stored |-> {}, todo |-> {}]
  /\ connected' = FALSE
  /\ raised' = IF connected THEN <<Callback("onDisconnected", 0)>> ELSE <<>>
  /\ sent' = "none"
  /\ thrown' = "none"
  /\ UNCHANGED <<initialized, started, registerer, muted, activeSessions,
                 nextId, kind, trace, handlers, sdhStream, streams,
                 answerMedia, pend, notifs, signals, acquire, answered,
                 localHold, clock, issued>>

\* Faulty variant of the guard of toggleHold, toggleMute and sendDTMF: any
\* stored session passes.
StoredSession(k) == k \in activeSessions

\* The guard toggleHold, toggleMute and sendDTMF share.
EstablishedSession(k) == k \in activeSessions /\ State(k) = "Established"

\* toggleHold(sessionId): the session description handler of SIP.js 0.21 has
\* neither localHold nor hold() nor unhold(), so localHold reads as undefined
\* and the call made for an Established session throws a TypeError.
ToggleHold(k) ==
  /\ Idle
  /\ k < nextId
  /\ sent' = "none"
  /\ thrown' = IF ~EstablishedSession(k) THEN "No established session found"
               ELSE IF localHold[k]
                 THEN "sessionDescriptionHandler.unhold is not a function"
                 ELSE "sessionDescriptionHandler.hold is not a function"
  /\ UNCHANGED <<disc, localHold, clock, issued, initialized, connected,
                 started, registerer, muted, activeSessions, nextId, kind,
                 trace, handlers, sdhStream, streams, answerMedia, pend,
                 notifs, signals, acquire, answered>>
  /\ raised' = <<>>

\* toggleMute(sessionId): flips track.enabled of the audio tracks of
\* sessionDescriptionHandler.localMediaStream.
ToggleMute(k) ==
  /\ Idle
  /\ k < nextId
  /\ sent' = "none"
  /\ IF EstablishedSession(k)
       THEN /\ muted' = [muted EXCEPT ![k] = ~@]
            /\ thrown' = "none"
       ELSE /\ thrown' = "No established session found"
            /\ UNCHANGED muted
  /\ UNCHANGED <<disc, localHold, clock, issued, initialized, connected,
                 started, registerer, activeSessions, nextId, kind, trace,
                 handlers, sdhStream, streams, answerMedia, pend, notifs,
                 signals, acquire, answered>>
  /\ raised' = <<>>

\* sendDTMF(sessionId, tone): session.info() sends an INFO.
SendDTMF(k) ==
  /\ Idle
  /\ k < nextId
  /\ IF EstablishedSession(k)
       THEN sent' = "info" /\ thrown' = "none"
       ELSE sent' = "none" /\ thrown' = "No established session found"
  /\ UNCHANGED <<disc, localHold, clock, issued, initialized, connected,
                 started, registerer, muted, activeSessions, nextId, kind,
                 trace, handlers, sdhStream, streams, answerMedia, pend,
                 notifs, signals, acquire, answered>>
  /\ raised' = <<>>

Next ==
  \/ Initialize
  \/ Connect
  \/ ConnectFails
  \/ OnDisconnect
  \/ OnConnect
  \/ \E ok \in BOOLEAN : RegisterResponse(ok)
  \/ \E k \in Ids : ToggleHold(k)
  \/ \E k \in Ids : ToggleMute(k)
  \/ \E k \in Ids : SendDTMF(k)
  \/ \E ok \in BOOLEAN : MakeCall(ok)
  \/ HandleIncomingCall
  \/ \E k \in Ids : InviteSent(k)
  \/ \E k \in Ids : InviteFailed(k)
  \/ \E k \in Ids : RemoteAccept(k)
  \/ \E k \in Ids : RemoteAcceptCanceled(k)
  \/ \E k \in Ids : RemoteReject(k)
  \/ \E k \in Ids : RemoteBye(k)
  \/ \E k \in Ids : RemoteCancel(k)
  \/ \E k \in Ids : NoAnswerTimeout(k)
  \/ \E k \in Ids : AnswerCall(k)
  \/ \E k \in Ids, ok \in BOOLEAN : AnswerAfterMedia(k, ok)
  \/ \E k \in Ids : AcceptCompletes(k)
  \/ \E k \in Ids : AcceptFails(k)
  \/ \E k \in Ids : RejectCall(k)
  \/ \E k \in Ids : HangupCall(k)
  \/ \E k \in Ids : HangupResume(k)
  \/ \E k \in Ids : AckReceived(k)
  \/ Disconnect
  \/ DisconnectHangup
  \/ DisconnectUnregister
  \/ DisconnectStop
  \/ DisconnectDispose
  \/ DisconnectDone

Spec == Init /\ [][Next]_vars

\* What SIP.js, the transport, the timers and the remote peer can be relied
\* on to do: a queued continuation runs; invite() and accept() settle; the
\* no-answer timer fires; the ACK arrives or its wait times out; connect()
\* is called again after a disconnection; and the remote peer's answer or
\* hangup gets through provided the transport is up again and again.
\* An event that is due stays due while a synchronous run of the service
\* (a disconnect() up to its awaits, a queued continuation) holds it back,
\* hence the strong fairness.
Fairness ==
  /\ SF_vars(Connect)
  /\ WF_vars(DisconnectHangup \/ DisconnectUnregister \/ DisconnectStop
               \/ DisconnectDispose \/ DisconnectDone)
  /\ \A k \in Ids :
       /\ WF_vars(HangupResume(k))
       /\ SF_vars(AckReceived(k))
       /\ SF_vars(InviteSent(k) \/ InviteFailed(k))
       /\ SF_vars(AcceptCompletes(k) \/ AcceptFails(k))
       /\ SF_vars(NoAnswerTimeout(k))
       /\ SF_vars(RemoteAccept(k) \/ RemoteReject(k))
       /\ SF_vars(RemoteBye(k))

FairSpec == Spec /\ Fairness

\* ---------------------------------------------------------------------------
\* Session ids.  The actions above name a session by its order of creation;
\* the string it is stored under comes from generateSessionId(), which is
\* studied on its own here: the clock advances, and makeCall and
\* handleIncomingCall each draw an id and store the new session under it.

\* The last millisecond the clock reaches.
MaxClock == 2

\* Math.random() yields one of the values 0..MaxRandom.
MaxRandom == 3

\* The number of ids drawn.
MaxIssued == 3

\* Math.random().toString(36).substr(2, 9): the leading digits of the value
\* are kept, the rest is cut off.
Suffix(rnd) == rnd \div 2

\* generateSessionId(): `session_${Date.now()}_${suffix}`; the store is not
\* consulted.
GenerateSessionId(now, rnd) == <<"session", now, Suffix(rnd)>>

\* A millisecond passes.
Tick ==
  /\ clock < MaxClock
  /\ clock' = clock + 1
  /\ UNCHANGED <<disc, initialized, connected, activeSessions, nextId, kind,
                 trace, handlers, sdhStream, streams, answerMedia, pend,
                 notifs, signals, acquire, answered, started, registerer,
                 muted, sent, localHold, issued, raised, thrown>>

\* activeSessions.set(sessionId, session) with a newly generated id.
StoreUnderNewId(rnd) ==
  /\ initialized
  /\ Len(issued) < MaxIssued
  /\ issued' = Append(issued, GenerateSessionId(clock, rnd))
  /\ UNCHANGED <<disc, initialized, connected, activeSessions, nextId, kind,
                 trace, handlers, sdhStream, streams, answerMedia, pend,
                 notifs, signals, acquire, answered, started, registerer,
                 muted, sent, localHold, clock, raised, thrown>>

\* makeCall: the id of the new Inviter.
MakeCallId == \E rnd \in 0..MaxRandom : StoreUnderNewId(rnd)

\* handleIncomingCall: the id of the new Invitation.
HandleIncomingCallId == \E rnd \in 0..MaxRandom : StoreUnderNewId(rnd)

IdNext ==
  \/ Initialize
  \/ Tick
  \/ MakeCallId
  \/ HandleIncomingCallId

IdSpec == Init /\ [][IdNext]_vars

(***************************************************************************)
(* Claims                                                                  *)
(***************************************************************************)

Created(k) == kind[k] # "none"

TerminatedNotifs(k) == {i \in DOMAIN notifs[k] : notifs[k][i] = "Terminated"}

HangupSignals(k) == {i \in DOMAIN signals[k] : signals[k][i] \in {"cancel", "bye"}}

\* C1: every session that was created is in the store (listed by
\* getActiveSessions) for as long as its state is not Terminated.
C1_ListedUntilTerminated ==
  \A k \in Ids : (Created(k) /\ State(k) # "Terminated") => k \in activeSessions

\* C2: once a session is Terminated, every stream acquired for it by makeCall
\* or answerCall has had its tracks stopped exactly once.
C2_ReleasedExactlyOnce ==
  \A k \in Ids :
    State(k) = "Terminated" => \A i \in DOMAIN streams[k] : streams[k][i] = 1

\* C3: every state transition of a stored session is delivered to
\* onCallStateChange with the session's id and the new state.
C3_EveryTransitionNotified ==
  [][\A k \in activeSessions :
       \A i \in (Len(trace[k]) + 1)..Len(trace'[k]) :
         \E j \in (Len(notifs[k]) + 1)..Len(notifs'[k]) :
           notifs'[k][j] = trace'[k][i]]_vars

\* C4: when the transport reports a disconnection, every stored session is
\* forced to Terminated and removed from the store by that event.
C4_DisconnectTerminatesSessions ==
  [][(connected /\ ~connected') =>
       \A k \in activeSessions :
         Last(trace'[k]) = "Terminated" /\ k \notin activeSessions']_vars

\* C5: a session that sent its offer, accepted its invitation or became
\* Established has a successfully acquired local stream.
C5_MediaBeforeEstablished ==
  \A k \in Ids :
    (Range(trace[k]) \cap {"Establishing", "Established"} # {})
      => Len(streams[k]) >= 1

C5_Witness ==
  \E k \in Ids : kind[k] = "Invitation" /\ State(k) = "Established"

\* C6: an incoming session rejected by rejectCall with no answerCall ever
\* made for it has had no getUserMedia call.
C6_RejectAcquiresNothing ==
  \A k \in Ids :
    (kind[k] = "Invitation" /\ "reject" \in Range(signals[k]) /\ ~answered[k])
      => acquire[k] = 0

C6_Witness ==
  \E k \in Ids :
    /\ kind[k] = "Invitation"
    /\ "reject" \in Range(signals[k])
    /\ ~answered[k]
    /\ State(k) = "Terminated"

\* C7: however often hangupCall is invoked on a session id, there is at most
\* one Terminated notification and at most one cancel/bye for it.
C7_HangupTwiceOneSignal ==
  \A k \in Ids :
    /\ Cardinality(TerminatedNotifs(k)) <= 1
    /\ Cardinality(HangupSignals(k)) <= 1

\* A second hangupCall ran while the first was still awaiting its bye(): only
\* hangupCall's default branch deletes the entry of a Terminating session.
C7_Witness ==
  \E k \in Ids :
    /\ pend[k] = "ack"
    /\ State(k) = "Terminating"
    /\ Cardinality(HangupSignals(k)) = 1
    /\ k \notin activeSessions

\* C8: the store never holds a session whose state is Terminated.
C8_NoTerminatedInStore ==
  \A k \in activeSessions : State(k) # "Terminated"

\* An answered incoming session has terminated.
C8_Witness ==
  \E k \in Ids :
    /\ kind[k] = "Invitation"
    /\ "Established" \in Range(trace[k])
    /\ State(k) = "Terminated"

\* C9: a session that is no longer in the store is Terminated and every
\* stream acquired for it has been released.
C9_RemovedOnlyAfterTerminatedAndReleased ==
  \A k \in Ids :
    (Created(k) /\ k \notin activeSessions) =>
      /\ State(k) = "Terminated"
      /\ \A i \in DOMAIN streams[k] : streams[k][i] >= 1

\* C10: every session in the store eventually is Terminated and out of the
\* store.
C10_EverySessionEnds ==
  \A k \in Ids :
    (k \in activeSessions) ~> (State(k) = "Terminated" /\ k \notin activeSessions)

\* An incoming session nobody answered has ended.
C10_Witness ==
  \E k \in Ids :
    /\ kind[k] = "Invitation"
    /\ acquire[k] = 0
    /\ signals[k] = <<>>
    /\ State(k) = "Terminated"
    /\ k \notin activeSessions

\* The streams acquired for session k, as they are after the step.
ReleasedAfter(k) == \A i \in DOMAIN streams'[k] : streams'[k][i] >= 1

\* C11: when a hangupCall made on a stored, not Terminated session settles
\* (it throws or returns in the step of the call, or it resumes after its
\* await), the session is out of the store and every stream acquired for it
\* has been released.
C11_HangupCompletesLocally ==
  [][\A k \in Ids :
       (\/ /\ k \in activeSessions
           /\ State(k) # "Terminated"
           /\ HangupCall(k)
           /\ pend'[k] = "none"
        \/ HangupResume(k)
        \/ AckReceived(k))
         => (k \notin activeSessions' /\ ReleasedAfter(k))]_vars

\* hangupCall has called cancel() on the outgoing session k.
CancelledOutgoing(k) == kind[k] = "Inviter" /\ "cancel" \in Range(signals[k])

\* C12: hangupCall on a stored outgoing session that is Initial or
\* Establishing calls cancel(); from then on the session is Terminating or
\* Terminated, never Establishing, and it ends Terminated and out of the
\* store, whether the remote's accept or reject arrives or not.
C12_CancelEndsOutgoingCall ==
  /\ [][\A k \in Ids :
          (/\ k \in activeSessions
           /\ kind[k] = "Inviter"
           /\ State(k) \in {"Initial", "Establishing"}
           /\ HangupCall(k))
            => (signals'[k] = Append(signals[k], "cancel") /\ sent' = "cancel")]_vars
  /\ \A k \in Ids :
       [](CancelledOutgoing(k) => State(k) \in {"Terminating", "Terminated"})
  /\ \A k \in Ids :
       CancelledOutgoing(k) ~> (State(k) = "Terminated" /\ k \notin activeSessions)

\* An outgoing call was cancelled after its INVITE went out and has ended.
C12_Witness ==
  \E k \in Ids :
    /\ CancelledOutgoing(k)
    /\ "Establishing" \in Range(trace[k])
    /\ State(k) = "Terminated"
    /\ k \notin activeSessions

\* A service operation that takes a session id is invoked with id k.
SessionOperation(k) ==
  \/ AnswerCall(k)
  \/ RejectCall(k)
  \/ HangupCall(k)
  \/ ToggleHold(k)
  \/ ToggleMute(k)
  \/ SendDTMF(k)

\* C13: an answerCall, rejectCall, hangupCall, toggleHold, toggleMute or
\* sendDTMF invoked with the id of a Terminated session throws, sends
\* nothing, makes no getUserMedia call and leaves the store, the session's
\* state and its mute flag as they were.
C13_TerminatedIsAbsorbing ==
  [][\A k \in Ids :
       (State(k) = "Terminated" /\ SessionOperation(k))
         => /\ thrown' # "none"
            /\ sent' = "none"
            /\ signals' = signals
            /\ acquire' = acquire
            /\ answerMedia' = answerMedia
            /\ activeSessions' = activeSessions
            /\ trace' = trace
            /\ muted' = muted]_vars

\* sendDTMF, toggleHold or toggleMute was just refused for a session that had
\* been Established and is Terminated.
C13_Witness ==
  \E k \in Ids :
    /\ "Established" \in Range(trace[k])
    /\ State(k) = "Terminated"
    /\ thrown = "No established session found"

\* C14: a makeCall made while registerer.state is not Registered throws and
\* creates no session: no Inviter, no store entry, no getUserMedia call
\* counted for a session.
C14_MakeCallRequiresRegistration ==
  [][\A ok \in BOOLEAN :
       (~IsRegistered /\ MakeCall(ok))
         => /\ thrown' # "none"
            /\ kind' = kind
            /\ activeSessions' = activeSessions
            /\ acquire' = acquire]_vars

\* C15: a makeCall made while the transport is not connected throws at once;
\* no session is stored and no Inviter is left waiting to send its INVITE.
C15_MakeCallRequiresConnection ==
  [][\A ok \in BOOLEAN :
       (~connected /\ MakeCall(ok))
         => /\ thrown' # "none"
            /\ activeSessions' = activeSessions
            /\ \A k \in Ids : kind[k] = "none" => kind'[k] # "Inviter"]_vars

\* C16: a makeCall whose getUserMedia rejects throws that error and leaves
\* the store and every session as they were: no Inviter is created, so no
\* INVITE is sent for the call.
C16_MediaFailureStoresNothing ==
  [][(initialized /\ MakeCall(FALSE))
       => /\ thrown' = MediaError
          /\ activeSessions' = activeSessions
          /\ kind' = kind
          /\ trace' = trace
          /\ nextId' = nextId
          /\ sent' = "none"]_vars

\* makeCall has just failed in getUserMedia: no incoming session exists whose
\* answerCall could have thrown the error.
C16_Witness ==
  /\ initialized
  /\ thrown = MediaError
  /\ \A k \in Ids : kind[k] # "Invitation"

\* C17: answerCall with an id that is not in the store throws the not-found
\* error; answerCall on a stored outgoing session throws another error;
\* answerCall on an incoming session that is already Established ends in
\* another error too; none of them changes a session's state.
C17_AnswerCallErrors ==
  [][\A k \in Ids :
       /\ (AnswerCall(k) /\ k \notin activeSessions)
            => (thrown' = InvalidSessionError /\ trace' = trace)
       /\ (AnswerCall(k) /\ k \in activeSessions /\ kind[k] = "Inviter")
            => (thrown' \notin {"none", InvalidSessionError} /\ trace' = trace)
       /\ \A ok \in BOOLEAN :
            (AnswerAfterMedia(k, ok) /\ State(k) = "Established")
              => (thrown' \notin {"none", InvalidSessionError} /\ trace' = trace)]_vars

\* C18: rejectCall on a stored incoming session that has not been
\* Established sends the rejection and leaves the session Terminated and out
\* of the store; on any other stored session it throws, sends nothing and
\* leaves the store and the session as they were.
C18_RejectOnlyUnanswered ==
  [][\A k \in activeSessions :
       RejectCall(k) =>
         IF kind[k] = "Invitation" /\ "Established" \notin Range(trace[k])
           THEN /\ sent' = "reject"
                /\ thrown' = "none"
                /\ Last(trace'[k]) = "Terminated"
                /\ k \notin activeSessions'
           ELSE /\ sent' = "none"
                /\ thrown' # "none"
                /\ signals' = signals
                /\ activeSessions' = activeSessions
                /\ trace' = trace
                /\ notifs' = notifs]_vars

\* rejectCall has just been refused for an answered incoming session, which
\* is still Established and stored.
C18_Witness ==
  \E k \in activeSessions :
    /\ kind[k] = "Invitation"
    /\ State(k) = "Established"
    /\ acquire[k] = 1
    /\ thrown = InvalidStateError
    /\ signals[k] = <<>>

\* C19: a hangupCall on a stored session sends the signal that belongs to
\* the state it reads, and nothing else: cancel for Initial and
\* Establishing, bye for Established, nothing for Terminating and Terminated.
C19_HangupSignalByState ==
  [][\A k \in activeSessions :
       HangupCall(k) =>
         LET expected == IF State(k) \in {"Initial", "Establishing"} THEN "cancel"
                         ELSE IF State(k) = "Established" THEN "bye"
                         ELSE "none"
         IN  /\ sent' = expected
             /\ signals'[k] = IF expected = "none" THEN signals[k]
                              ELSE Append(signals[k], expected)]_vars

\* C20: a transport disconnection leaves the registerer not Registered
\* (isRegistered() false), and a transport reconnection that no connect()
\* call made starts a new registration.
C20_RegistrationFollowsTransport ==
  [][/\ (connected /\ ~connected') => registerer' # "Registered"
     /\ OnConnect => registerer' = "Waiting"]_vars

\* C21: a step in which connect() starts a registration or the answer to a
\* REGISTER (first or renewal, 200 or failure) arrives changes neither the
\* store nor any session's state, listeners, streams or mute flag.
C21_RegistrationLeavesSessions ==
  [][(Connect \/ \E ok \in BOOLEAN : RegisterResponse(ok))
       => /\ activeSessions' = activeSessions
          /\ trace' = trace
          /\ handlers' = handlers
          /\ streams' = streams
          /\ sdhStream' = sdhStream
          /\ muted' = muted
          /\ notifs' = notifs]_vars

\* A renewal has just failed while a call is Established and stored.
C21_Witness ==
  /\ registerer = "Unregistered"
  /\ sent = "none"
  /\ thrown = "none"
  /\ \E k \in activeSessions :
       /\ State(k) = "Established"
       /\ kind[k] = "Invitation"
       /\ acquire[k] = 1

\* The transitions session k has made, oldest first.
Transitions(k) == Tail(trace[k])

\* C22: when a stored outgoing session becomes Established, the same step
\* delivers an onCallStateChange with its id and state Established.
C22_EstablishedIsNotified ==
  [][\A k \in activeSessions :
       (/\ kind[k] = "Inviter"
        /\ State(k) # "Established"
        /\ Last(trace'[k]) = "Established")
         => \E j \in (Len(notifs[k]) + 1)..Len(notifs'[k]) :
              notifs'[k][j] = "Established"]_vars

\* An outgoing call is Established and its subscriber has been told so.
C22_Witness ==
  \E k \in activeSessions :
    /\ kind[k] = "Inviter"
    /\ State(k) = "Established"
    /\ "Established" \in Range(notifs[k])

\* C23: the states carried by the onCallStateChange notifications of a
\* session are exactly the transitions it has made, in their order.
C23_NotificationsAreTheTransitions ==
  \A k \in Ids : Created(k) => notifs[k] = Transitions(k)

C25_MediaOperationsNeedEstablished ==
  [][\A k \in Ids :
       (/\ ~(k \in activeSessions /\ State(k) = "Established")
        /\ (ToggleHold(k) \/ ToggleMute(k) \/ SendDTMF(k)))
         => /\ thrown' = "No established session found"
            /\ sent' = "none"
            /\ signals' = signals
            /\ localHold' = localHold
            /\ muted' = muted
            /\ activeSessions' = activeSessions
            /\ trace' = trace]_vars

\* A media operation has just been refused for a stored session that is
\* still being set up.
C25_Witness ==
  /\ thrown = "No established session found"
  /\ \E k \in activeSessions : State(k) = "Establishing" /\ ~muted[k]

\* C26: the ids generateSessionId() returns are pairwise different, so a
\* session is never stored under an id that is or was in use.
C26_SessionIdsUnique ==
  \A i, j \in 1..Len(issued) : i # j => issued[i] # issued[j]

\* A call whose precondition does not hold: the service is not initialized,
\* the session id is not in the store, or the operation is not valid in the
\* state the stored session is in.
PreconditionViolated ==
  \/ ~initialized /\ (Connect \/ \E ok \in BOOLEAN : MakeCall(ok))
  \/ \E k \in Ids :
       /\ k \notin activeSessions
       /\ \/ AnswerCall(k)
          \/ RejectCall(k)
          \/ HangupCall(k)
          \/ ToggleHold(k)
          \/ ToggleMute(k)
          \/ SendDTMF(k)
  \/ \E k \in Ids, ok \in BOOLEAN :
       /\ kind[k] = "Invitation"
       /\ State(k) # "Initial"
       /\ AnswerAfterMedia(k, ok)
  \/ \E k \in activeSessions :
       \/ kind[k] = "Inviter" /\ (AnswerCall(k) \/ RejectCall(k))
       \/ /\ kind[k] = "Invitation"
          /\ State(k) \notin {"Initial", "Establishing"}
          /\ RejectCall(k)
       \/ /\ State(k) # "Established"
          /\ (ToggleHold(k) \/ ToggleMute(k) \/ SendDTMF(k))

\* C27: a call whose precondition does not hold fails with an error and
\* invokes no callback: no onCallStateChange, no onIncomingCall, no
\* onRegistrationFailed, nor any other.
C27_PreconditionFailuresRaiseNothing ==
  [][PreconditionViolated
       => /\ thrown' # "none"
          /\ raised' = <<>>
          /\ notifs' = notifs]_vars

\* rejectCall has just been refused for an answered incoming call.
C27_Witness ==
  /\ thrown = InvalidStateError
  /\ raised = <<>>
  /\ \E k \in activeSessions :
       kind[k] = "Invitation" /\ State(k) = "Established" /\ answered[k]

\* C28: an inbound offer adds exactly one new session to the store, under
\* an id not in use, and raises onIncomingCall exactly once, with the id of
\* that session.
C28_IncomingCallIsAnnounced ==
  [][HandleIncomingCall
       => /\ nextId \notin activeSessions
          /\ activeSessions' = activeSessions \cup {nextId}
          /\ kind'[nextId] = "Invitation"
          /\ Len(raised') = 1
          /\ raised'[1].name = "onIncomingCall"
          /\ raised'[1].sessionId = nextId]_vars

C30_DisconnectTerminatesAll ==
  [][/\ (DisconnectUnregister /\ sent' = "unregister")
          => \A k \in disc.stored : signals[k] # <<>>
     /\ DisconnectDone => activeSessions' = {}]_vars

\* C31: when makeCall fails because invite() fails, after the media was
\* acquired and the session stored, the session is no longer in the store
\* and every stream makeCall acquired for it has been stopped.
C31_FailedMakeCallLeavesNothing ==
  [][\A k \in Ids :
       InviteFailed(k)
         => /\ k \notin activeSessions'
            /\ \A i \in 1..Len(streams'[k]) : streams'[k][i] >= 1]_vars

\* C32: when answerCall has acquired its media and accept() is then refused
\* (the Invitation is no longer Initial: cancelled, timed out, rejected, or
\* already answered), the stream that call acquired has been stopped and
\* the session has at most one setupSessionHandlers listener.
C32_FailedAnswerLeavesNothing ==
  [][\A k \in Ids :
       (AnswerAfterMedia(k, TRUE) /\ thrown' = InvalidStateError)
         => /\ Last(streams'[k]) >= 1
            /\ Len(handlers'[k]) <= 1]_vars

\* The positions of a sequence that hold the value v.
Occurrences(seq, v) == {i \in 1..Len(seq) : seq[i] = v}

\* C33: a session that became Established once has been reported
\* Established by exactly one onCallStateChange notification: neither a
\* remote accept of an outgoing call nor a successful answerCall is
\* reported twice.
C33_EstablishedNotifiedOnce ==
  \A k \in Ids :
    Cardinality(Occurrences(notifs[k], "Established"))
      = Cardinality(Occurrences(trace[k], "Established"))

====
